---------------------------- MODULE Spec2Model ----------------------------
(***************************************************************************)
(* photomap: the metadata resolver (exif_loader.py), the repository of     *)
(* resolved records (data_store.py) and the scan loop of main.py.          *)
(*                                                                         *)
(* Values.  Every Python value is a record, so that any two can be         *)
(* compared: None is [none |-> TRUE], a float is an exact rational          *)
(* [n, d] in lowest terms with d > 0, a string is [str |-> "text"], a list *)
(* that may be missing is [some |-> list].  Tuples the code unpacks at     *)
(* once stay tuples.  An exception travelling up the call stack is the     *)
(* token Raise; a try/except is the operator Try.                          *)
(***************************************************************************)
EXTENDS Integers, Sequences, FiniteSets, TLC

None == [none |-> TRUE]

Some(x) == [some |-> x]

Str(s) == [str |-> s]

Raise == [exc |-> TRUE]

\* try: v  except Exception: handler
Try(v, handler) == IF v = Raise THEN handler ELSE v

EmptyDict == [k \in {} |-> None]

(***************************************************************************)
(* Float arithmetic, exact.                                                *)
(***************************************************************************)
Abs(n) == IF n < 0 THEN -n ELSE n

RECURSIVE GCD(_, _)
GCD(a, b) == IF b = 0 THEN a ELSE GCD(b, a % b)

\* n/d in lowest terms, the sign carried by the numerator (d # 0)
Rat(n, d) ==
    LET g == GCD(Abs(n), Abs(d))
        s == IF d < 0 THEN -1 ELSE 1
    IN  [n |-> (s * n) \div g, d |-> Abs(d) \div g]

RAdd(x, y) ==
    LET g == GCD(x.d, y.d)
    IN  Rat(x.n * (y.d \div g) + y.n * (x.d \div g), (x.d \div g) * y.d)

RNeg(x) == [n |-> -x.n, d |-> x.d]

\* x / k for an integer constant k > 0
RDivInt(x, k) ==
    LET g == GCD(Abs(x.n), k)
    IN  IF x.n = 0 THEN Rat(0, 1) ELSE [n |-> x.n \div g, d |-> x.d * (k \div g)]

\* abs(x) < 1e-9, i.e. |n| * 10^9 < d, evaluated without leaving 32 bits
BelowEps(x) ==
    \/ x.n = 0
    \/ /\ Abs(x.n) <= 2
       /\ Abs(x.n) * 1000000000 < x.d

(***************************************************************************)
(* geo_utils.dms_to_decimal.  A component of a DMS list is a rational      *)
(* [num, den] or something that is no pair of numbers ([bad |-> TRUE]).    *)
(***************************************************************************)
IsPair(c) == "num" \in DOMAIN c

\* n / d of one component: ZeroDivisionError, TypeError or ValueError raise
Quotient(c) ==
    IF ~IsPair(c) THEN Raise
    ELSE IF c.den = 0 THEN Raise
    ELSE Rat(c.num, c.den)

\* the minutes divided by 6
DegMinSec_minutes_by_6(deg, minute, second) ==
    RAdd(RAdd(deg, RDivInt(minute, 6)), RDivInt(second, 3600))

DegMinSec(deg, minute, second) ==
    RAdd(RAdd(deg, RDivInt(minute, 60)), RDivInt(second, 3600))

\* the sign applied for the southern reference only
ApplyRef_south_only(val, ref) == IF ref = Str("S") THEN RNeg(val) ELSE val

ApplyRef(val, ref) == IF ref \in {Str("S"), Str("W")} THEN RNeg(val) ELSE val

\* a missing component taken as zero
dms_body_pads_missing(dms, ref) ==
    LET d == [i \in 1..Len(dms) |-> Quotient(dms[i])]
        at(i) == IF i <= Len(dms) THEN d[i] ELSE Rat(0, 1)
    IN  IF \E i \in 1..Len(dms) : d[i] = Raise THEN Raise
        ELSE ApplyRef(DegMinSec(at(1), at(2), at(3)), ref)

\* the body of the try block: d[0], d[1], d[2] of the list of quotients
dms_body(dms, ref) ==
    LET d == [i \in 1..Len(dms) |-> Quotient(dms[i])]
    IN  IF \E i \in 1..Len(dms) : d[i] = Raise THEN Raise
        ELSE IF Len(dms) < 3 THEN Raise
        ELSE ApplyRef(DegMinSec(d[1], d[2], d[3]), ref)

dms_to_decimal(dms, ref) == Try(dms_body(dms, ref), None)

(***************************************************************************)
(* exif_loader._ratios_to_decimal: the same conversion on exifread's       *)
(* ratios, read through their string form, unpacked into exactly three.    *)
(***************************************************************************)
to_float(x) == Quotient(x)

ratios_body(parts, ref) ==
    LET f == [i \in 1..Len(parts) |-> to_float(parts[i])]
    IN  IF \E i \in 1..Len(parts) : f[i] = Raise THEN Raise
        ELSE IF Len(parts) # 3 THEN Raise
        ELSE ApplyRef(DegMinSec(f[1], f[2], f[3]), ref)

\* _ratios_to_decimal without its try/except
ratios_uncaught(parts, ref) == ratios_body(parts, ref)

_ratios_to_decimal(parts, ref) == Try(ratios_body(parts, ref), None)

(***************************************************************************)
(* types_.PhotoMeta                                                        *)
(***************************************************************************)
PhotoMeta(path, lat, lon, datetime, make, model, extra) ==
    [path |-> path, lat |-> lat, lon |-> lon, datetime |-> datetime,
     make |-> make, model |-> model, extra |-> extra]

(***************************************************************************)
(* exif_loader._exifread_extract.  The file is Unreadable (open or         *)
(* process_file raises) or yields a tag table: a GPS value is None or      *)
(* Some(list of components), a reference or a text tag None or a string.   *)
(***************************************************************************)
Unreadable == [unreadable |-> TRUE]

\* str(tag).strip() or None / str(tag) or None: the empty string is absent
OrNone(s) == IF s = None \/ s = Str("") THEN None ELSE s

exifread_body(path, file) ==
    IF file = Unreadable THEN Raise
    ELSE
      LET tags == file
          lat_ref == OrNone(tags.lat_ref)
          lon_ref == OrNone(tags.lon_ref)
          both == tags.lat_vals # None /\ tags.lon_vals # None
          lat == IF both THEN _ratios_to_decimal(tags.lat_vals.some, lat_ref)
                 ELSE None
          lon == IF both THEN _ratios_to_decimal(tags.lon_vals.some, lon_ref)
                 ELSE None
          dt == IF tags.dto # None THEN tags.dto ELSE tags.idt
      IN  PhotoMeta(path, lat, lon, dt, OrNone(tags.make), OrNone(tags.model),
                    EmptyDict)

\* _exifread_extract without its try/except
exifread_uncaught(path, file) == exifread_body(path, file)

_exifread_extract(path, file) == Try(exifread_body(path, file), None)

(***************************************************************************)
(* exif_loader._read_takeout_sidecar.  A candidate file is Absent          *)
(* (c.exists() is false), Malformed (read_text or json.loads raises),      *)
(* NonDict (valid JSON that is no object) or a document: a record of the   *)
(* six keys the reader looks at.  A geo key holds NotDict (missing, or no  *)
(* object) or [latitude, longitude]; a JSON value is None (missing or      *)
(* null), a number, a string, or BadNum (something float() refuses).       *)
(***************************************************************************)
Absent == [absent |-> TRUE]

Malformed == [malformed |-> TRUE]

NonDict == [nondict |-> TRUE]

NotDict == [notdict |-> TRUE]

BadNum == [badnum |-> TRUE]

IsDoc(data) == "geoData" \in DOMAIN data

IsDict(gd) == "latitude" \in DOMAIN gd

\* float(v) if v is not None else None
Coerce(v) == IF v = None THEN None ELSE IF v = BadNum THEN Raise ELSE v

\* each coordinate coerced in a try block of its own
pick_latlon_independent(d) ==
    LET lat == Coerce(d.latitude)
        lon == Coerce(d.longitude)
    IN  <<IF lat = Raise THEN None ELSE lat, IF lon = Raise THEN None ELSE lon>>

pick_latlon(d) ==
    LET lat == Coerce(d.latitude)
        lon == Coerce(d.longitude)
    IN  IF lat = Raise \/ lon = Raise THEN <<None, None>> ELSE <<lat, lon>>

\* the generic key examined before the EXIF-derived one
GeoKeys_generic_first == <<"geoData", "geoDataExif", "location">>

GeoKeys == <<"geoDataExif", "geoData", "location">>

\* the for loop over the geo keys from key i on; cur is (lat, lon) so far
RECURSIVE GeoLoop(_, _, _)
GeoLoop(data, i, cur) ==
    IF i > Len(GeoKeys) THEN cur
    ELSE LET gd == data[GeoKeys[i]]
         IN  IF IsDict(gd)
             THEN LET p == pick_latlon(gd)
                  IN  IF p[1] # None /\ p[2] # None THEN p
                      ELSE GeoLoop(data, i + 1, p)
             ELSE GeoLoop(data, i + 1, cur)

\* Python's  a or b
Truthy(v) == v # None /\ v # Str("")

PyOr(a, b) == IF Truthy(a) THEN a ELSE b

IsTimeDict(ptt) == "formatted" \in DOMAIN ptt

\* the top-level fields taken whenever the time object gives nothing
SidecarDatetime_falls_through(data) ==
    LET ptt == data.photoTakenTime
        top == PyOr(data.creationTime, data.creationTimestamp)
    IN  IF IsTimeDict(ptt) THEN PyOr(PyOr(ptt.formatted, ptt.timestamp), top)
        ELSE top

SidecarDatetime(data) ==
    LET ptt == data.photoTakenTime
    IN  IF IsTimeDict(ptt) THEN PyOr(ptt.formatted, ptt.timestamp)
        ELSE PyOr(data.creationTime, data.creationTimestamp)

\* what one parsed document holds: (lat, lon, dt) as the loop body computes them
DocTriple(data) ==
    LET ll == GeoLoop(data, 1, <<None, None>>)
    IN  [lat |-> ll[1], lon |-> ll[2], dt |-> SidecarDatetime(data)]

\* if lat is not None and lon is not None or dt is not None
Yields(t) == (t.lat # None /\ t.lon # None) \/ t.dt # None

Continue == [continue |-> TRUE]

\* the loop body returning from any candidate that parsed to an object
Candidate_first_parsed(file) ==
    IF file = Absent THEN Continue
    ELSE IF file = Malformed THEN Continue
    ELSE IF ~IsDoc(file) THEN Continue
    ELSE DocTriple(file)

\* the loop body with json.loads outside the try block
Candidate_malformed_raises(file) ==
    IF file = Absent THEN Continue
    ELSE IF file = Malformed THEN Raise
    ELSE IF ~IsDoc(file) THEN Continue
    ELSE IF Yields(DocTriple(file)) THEN DocTriple(file)
    ELSE Continue

\* one turn of the loop over the candidates: the returned triple, or Continue
Candidate(file) ==
    IF file = Absent THEN Continue
    ELSE IF file = Malformed THEN Continue
    ELSE IF ~IsDoc(file) THEN Continue
    ELSE IF Yields(DocTriple(file)) THEN DocTriple(file)
    ELSE Continue

\* files[1] is <name>.<ext>.json, files[2] is <name>.json
RECURSIVE CandidateLoop(_, _)
CandidateLoop(files, i) ==
    IF i > Len(files) THEN [lat |-> None, lon |-> None, dt |-> None]
    ELSE IF Candidate(files[i]) # Continue THEN Candidate(files[i])
    ELSE CandidateLoop(files, i + 1)

_read_takeout_sidecar(files) == CandidateLoop(files, 1)

NoTriple == [lat |-> None, lon |-> None, dt |-> None]

\* what the loop body has in lat, lon, dt at its end
Held(file) == IF IsDoc(file) THEN DocTriple(file) ELSE NoTriple

FileKind(file) ==
    IF file = Absent THEN "absent"
    ELSE IF file = Malformed THEN "malformed"
    ELSE "parsed"

\* the candidates the loop reaches from candidate i on, each with what it
\* was and held: the loop stops behind the candidate it returns from
RECURSIVE SidecarTrace(_, _)
SidecarTrace(files, i) ==
    IF i > Len(files) THEN <<>>
    ELSE LET e == [kind |-> FileKind(files[i]), held |-> Held(files[i])]
         IN  IF Candidate(files[i]) # Continue THEN <<e>>
             ELSE <<e>> \o SidecarTrace(files, i + 1)

(***************************************************************************)
(* exif_loader._pillow_extract.  The image is Unidentified (Image.open     *)
(* raises UnidentifiedImageError), Corrupt (any other exception) or yields *)
(* its EXIF table: gps is None (no GPSInfo, or an empty one) or the GPS    *)
(* sub-dictionary, whose lat and lon are lists of components (the empty    *)
(* list when the tag is missing) and whose alt is None or one component.   *)
(***************************************************************************)
Unidentified == [unidentified |-> TRUE]

Corrupt == [corrupt |-> TRUE]

\* a zero denominator taken as altitude 0
AltitudeStr_zero_den_as_zero(alt) ==
    IF "num" \in DOMAIN alt /\ alt.den = 0 THEN Str(Rat(0, 1))
    ELSE IF Quotient(alt) = Raise THEN Raise ELSE Str(Quotient(alt))

\* num, den = gps_data["GPSAltitude"]; str(num / den)
AltitudeStr(alt) == IF Quotient(alt) = Raise THEN Raise ELSE Str(Quotient(alt))

AltitudeExtra(gps) ==
    IF gps = None THEN EmptyDict
    ELSE IF gps.alt = None THEN EmptyDict
    ELSE IF AltitudeStr(gps.alt.some) = Raise THEN EmptyDict
    ELSE [k \in {"altitude_m"} |-> AltitudeStr(gps.alt.some)]

\* str(v) if v else None
StrOrNone(v) == IF Truthy(v) THEN v ELSE None

pillow_body(path, img) ==
    IF img = Unidentified \/ img = Corrupt THEN Raise
    ELSE
      LET data == img
          gps == data.gps
          lat == IF gps # None THEN dms_to_decimal(gps.lat, gps.lat_ref)
                 ELSE None
          lon == IF gps # None THEN dms_to_decimal(gps.lon, gps.lon_ref)
                 ELSE None
          dt == StrOrNone(PyOr(data.dto, data.dt))
      IN  PhotoMeta(path, lat, lon, dt, StrOrNone(data.make),
                    StrOrNone(data.model), AltitudeExtra(gps))

_pillow_extract(path, img) == Try(pillow_body(path, img), None)

(***************************************************************************)
(* exif_loader._drop_if_zero_coord                                         *)
(***************************************************************************)
\* the filter with "or" for "and"
drop_if_either_zero(lat, lon) ==
    IF lat = None \/ lon = None THEN <<lat, lon>>
    ELSE IF BelowEps(lat) \/ BelowEps(lon) THEN <<None, None>>
    ELSE <<lat, lon>>

_drop_if_zero_coord(lat, lon) ==
    IF lat = None \/ lon = None THEN <<lat, lon>>
    ELSE IF BelowEps(lat) /\ BelowEps(lon) THEN <<None, None>>
    ELSE <<lat, lon>>

(***************************************************************************)
(* State.                                                                  *)
(*   pc                     where the run stands                           *)
(*   p                      the path being resolved (main's loop variable) *)
(*   m, s, pm               read_photo_meta's locals: the fast parser's    *)
(*                          record, the sidecar triple, the decoder's      *)
(*                          record; Unbound until the assignment runs      *)
(*   lat, lon, dt, make,                                                   *)
(*   model, extra           read_photo_meta's accumulators                 *)
(*   result                 what read_photo_meta returned                  *)
(*   examined               what each sidecar candidate the reader has     *)
(*                          reached was and held                           *)
(*   c, doc, ret            _read_takeout_sidecar run on its own: the      *)
(*                          index of the next candidate, the document the  *)
(*                          return statement was reached in, the value     *)
(*                          returned                                       *)
(*   nfiles, limit, count   the directory's size, --limit, scan_images'    *)
(*                          counter                                        *)
(*   items, skipped         PhotoRepository._items and ._skipped           *)
(*   total, with_gps,                                                      *)
(*   without_gps            main's counters                                *)
(*   kinds                  what each scanned file was (see PhotoKind)      *)
(*   gps_paths, thumb_map,                                                 *)
(*   geojson, csv,                                                         *)
(*   skipped_txt, pts       main's locals and the files written after the  *)
(*                          loop                                           *)
(*   dms, ref, deg, val     the conversions run on their own: the list of  *)
(*                          components and the reference handed to         *)
(*                          dms_to_decimal and to _ratios_to_decimal, what *)
(*                          the former returned (deg) and what the latter  *)
(*                          returned (val)                                 *)
(*   disk, calls            several calls of read_photo_meta in flight at  *)
(*                          once: what the file at each path, its sidecar  *)
(*                          candidates and its decoded image hold, and the *)
(*                          frame of each call (its position, its path and *)
(*                          its locals)                                    *)
(***************************************************************************)
VARIABLES pc, p, m, s, pm, lat, lon, dt, make, model, extra, result,
          c, examined, doc, ret,
          nfiles, limit, count, items, skipped, total, with_gps, without_gps,
          kinds, gps_paths, thumb_map, geojson, csv, skipped_txt, pts,
          dms, ref, deg, val,
          disk, calls

rvars == <<m, s, pm, lat, lon, dt, make, model, extra, result>>

svars == <<c, examined, doc, ret>>

mvars == <<nfiles, limit, count, items, skipped, total, with_gps, without_gps,
           kinds, gps_paths, thumb_map, geojson, csv, skipped_txt, pts>>

dvars == <<dms, ref, deg, val>>

cvars == <<disk, calls>>

vars == <<pc, p, rvars, svars, mvars, dvars, cvars>>

Unbound == [unbound |-> TRUE]

(***************************************************************************)
(* exif_loader.read_photo_meta, one action per strategy.  file, files and  *)
(* img are what the file at p, its two sidecar candidates and its decoded  *)
(* image hold.                                                             *)
(***************************************************************************)
\* a failed fast parser sends the call straight to the decoder
Exifread_failure_skips_sidecar(file) ==
    /\ pc = "exifread"
    /\ LET r == _exifread_extract(p, file)
       IN  IF r = Raise
           THEN /\ pc' = "raised"
                /\ UNCHANGED <<m, lat, lon, dt, make, model, extra>>
           ELSE /\ m' = r
                /\ lat' = (IF r # None THEN r.lat ELSE None)
                /\ lon' = (IF r # None THEN r.lon ELSE None)
                /\ dt' = (IF r # None THEN r.datetime ELSE None)
                /\ make' = (IF r # None THEN r.make ELSE None)
                /\ model' = (IF r # None THEN r.model ELSE None)
                /\ extra' = EmptyDict
                /\ pc' = (IF r = None THEN "fallback" ELSE "sidecar")
    /\ UNCHANGED <<p, s, pm, result, svars, mvars, dvars, cvars>>

\* lines 236-243: m = _exifread_extract(path) and the accumulators
Exifread(file) ==
    /\ pc = "exifread"
    /\ LET r == _exifread_extract(p, file)
       IN  IF r = Raise
           THEN /\ pc' = "raised"
                /\ UNCHANGED <<m, lat, lon, dt, make, model, extra>>
           ELSE /\ m' = r
                /\ lat' = (IF r # None THEN r.lat ELSE None)
                /\ lon' = (IF r # None THEN r.lon ELSE None)
                /\ dt' = (IF r # None THEN r.datetime ELSE None)
                /\ make' = (IF r # None THEN r.make ELSE None)
                /\ model' = (IF r # None THEN r.model ELSE None)
                /\ extra' = EmptyDict
                /\ pc' = "sidecar"
    /\ UNCHANGED <<p, s, pm, result, svars, mvars, dvars, cvars>>

\* the sidecar value taken whenever there is one
FillGap_overwrite(x, y) == IF y # None THEN y ELSE x

\* a zero coordinate taken as a gap the sidecar may fill
FillGap_zero_is_gap(x, y) ==
    IF (x = None \/ ("n" \in DOMAIN x /\ x.n = 0)) /\ y # None THEN y ELSE x

\* x if x is not None else y
FillGap(x, y) == IF x = None /\ y # None THEN y ELSE x

\* lines 245-252: the sidecar fills the gaps of lat, lon and dt
ReadSidecar(files) ==
    /\ pc = "sidecar"
    /\ LET r == _read_takeout_sidecar(files)
       IN  IF r = Raise
           THEN /\ pc' = "raised"
                /\ UNCHANGED <<s, lat, lon, dt>>
           ELSE /\ s' = r
                /\ lat' = FillGap(lat, r.lat)
                /\ lon' = FillGap(lon, r.lon)
                /\ dt' = FillGap(dt, r.dt)
                /\ pc' = "fallback"
    /\ examined' = SidecarTrace(files, 1)
    /\ UNCHANGED <<p, m, pm, make, model, extra, result, c, doc, ret, mvars, dvars, cvars>>

\* the fallback engaged whenever a coordinate is missing
NeedsPillow_any(la, lo, fast) == la = None \/ lo = None

\* line 255: if (lat is None or lon is None) and (m is None)
NeedsPillow(la, lo, fast) == (la = None \/ lo = None) /\ fast = None

\* an update that adds nothing
DictUpdate_nothing(d, other) == d

\* extra.update(other)
DictUpdate(d, other) ==
    [k \in DOMAIN d \cup DOMAIN other |->
        IF k \in DOMAIN other THEN other[k] ELSE d[k]]

\* the decoder value assigned unconditionally
IfNone_overwrite(x, y) == y

\* x = y if x is None
IfNone(x, y) == IF x = None THEN y ELSE x

\* lines 254-268: the decoder fallback and its merge
Fallback(img) ==
    /\ pc = "fallback"
    /\ NeedsPillow(lat, lon, m)
    /\ LET r == _pillow_extract(p, img)
       IN  IF r = Raise
           THEN /\ pc' = "raised"
                /\ UNCHANGED <<pm, lat, lon, dt, make, model, extra>>
           ELSE /\ pm' = r
                /\ IF r # None
                   THEN /\ lat' = IfNone(lat, r.lat)
                        /\ lon' = IfNone(lon, r.lon)
                        /\ dt' = IfNone(dt, r.datetime)
                        /\ make' = IfNone(make, r.make)
                        /\ model' = IfNone(model, r.model)
                        /\ extra' = DictUpdate(extra, r.extra)
                   ELSE UNCHANGED <<lat, lon, dt, make, model, extra>>
                /\ pc' = "sentinel"
    /\ UNCHANGED <<p, m, s, result, svars, mvars, dvars, cvars>>

\* line 255 is false: the image is not opened
NoFallback ==
    /\ pc = "fallback"
    /\ ~NeedsPillow(lat, lon, m)
    /\ pc' = "sentinel"
    /\ UNCHANGED <<p, rvars, svars, mvars, dvars, cvars>>

\* lines 270-274: the sentinel filter and the returned record
Return ==
    /\ pc = "sentinel"
    /\ LET ll == _drop_if_zero_coord(lat, lon)
       IN  /\ lat' = ll[1]
           /\ lon' = ll[2]
           /\ result' = PhotoMeta(p, ll[1], ll[2], dt, make, model, extra)
    /\ pc' = "returned"
    /\ UNCHANGED <<p, m, s, pm, dt, make, model, extra, svars, mvars, dvars, cvars>>

(***************************************************************************)
(* The contents a photo, its sidecar candidates and its decoded image are  *)
(* drawn from.                                                             *)
(***************************************************************************)
R(n, d) == [num |-> n, den |-> d]

ZeroDMS == <<R(0, 1), R(0, 1), R(0, 1)>>

LondonDMS == <<R(51, 1), R(30, 1), R(26, 1)>>

TinyDMS == <<R(0, 1), R(0, 1), R(1, 500000)>>

ZeroDenDMS == <<R(51, 1), R(30, 0), R(26, 1)>>

ShortDMS == <<R(51, 1), R(30, 1)>>

WestDMS == <<R(0, 1), R(7, 1), R(39, 1)>>

ParisLatDMS == <<R(48, 1), R(51, 1), R(24, 1)>>

ParisLonDMS == <<R(2, 1), R(21, 1), R(8, 1)>>

\* what exifread.process_file may deliver for the tags _exifread_extract reads
TagTables ==
    [lat_vals : {None, Some(ZeroDMS), Some(LondonDMS), Some(TinyDMS),
                 Some(ZeroDenDMS), Some(ShortDMS)},
     lat_ref  : {None, Str("N"), Str("S")},
     lon_vals : {None, Some(ZeroDMS), Some(WestDMS), Some(ZeroDenDMS)},
     lon_ref  : {None, Str("W")},
     dto      : {None, Str("2020:01:01 10:00:00")},
     idt      : {None, Str("2021:02:02 11:00:00")},
     make     : {None, Str(""), Str("Canon")},
     model    : {None, Str("EOS")}]

FastFiles == {Unreadable} \cup TagTables

Tiny == Rat(1, 2000000000)

AtEps == Rat(1, 1000000000)

NewYorkLat == Rat(407, 10)

NewYorkLon == Rat(-74, 1)

TakenTime == [formatted |-> Str("1 Jan 2020"), timestamp |-> Str("1577836800")]

\* documents with one geo key and one time object
PlainDocs ==
    [geoDataExif       : {NotDict},
     geoData           : {NotDict} \cup
                         [latitude  : {None, Rat(0, 1), Tiny, AtEps, NewYorkLat},
                          longitude : {None, Rat(0, 1), RNeg(Tiny), NewYorkLon}],
     location          : {NotDict},
     photoTakenTime    : {NotDict, TakenTime},
     creationTime      : {None},
     creationTimestamp : {None}]

SecondDoc ==
    [geoDataExif       |-> NotDict,
     geoData           |-> [latitude |-> Rat(-339, 10), longitude |-> Rat(1512, 10)],
     location          |-> NotDict,
     photoTakenTime    |-> NotDict,
     creationTime      |-> Str("2 Feb 2021"),
     creationTimestamp |-> None]

\* <name>.<ext>.json and <name>.json next to a photo
Sidecars ==
    {<<f1, f2>> : f1 \in {Absent, Malformed, NonDict} \cup PlainDocs,
                  f2 \in {Absent, Malformed, SecondDoc}}

GpsDicts ==
    [lat     : {<<>>, ParisLatDMS, ZeroDMS},
     lat_ref : {None, Str("N")},
     lon     : {<<>>, ParisLonDMS, ZeroDMS},
     lon_ref : {Str("E")},
     alt     : {None, Some(R(35, 1)), Some(R(1, 0))}]

\* what Image.open(path).getexif() may deliver for the tags _pillow_extract reads
ExifTables ==
    [gps   : {None} \cup GpsDicts,
     dto   : {None, Str("2019:03:03 12:00:00")},
     dt    : {None, Str("2019:04:04 13:00:00")},
     make  : {None, Str("Apple")},
     model : {None, Str("iPhone")}]

Images == {Unidentified, Corrupt} \cup ExifTables

(***************************************************************************)
(* Spec: one call of read_photo_meta.                                      *)
(***************************************************************************)
SidecarIdle ==
    /\ c = 0
    /\ examined = <<>>
    /\ doc = Unbound
    /\ ret = Unbound

MainIdle ==
    /\ nfiles = 0
    /\ limit = 0
    /\ count = 0
    /\ items = <<>>
    /\ skipped = <<>>
    /\ total = 0
    /\ with_gps = 0
    /\ without_gps = 0
    /\ kinds = <<>>
    /\ gps_paths = Unbound
    /\ thumb_map = Unbound
    /\ geojson = Unbound
    /\ csv = Unbound
    /\ skipped_txt = Unbound
    /\ pts = Unbound

DmsIdle ==
    /\ dms = <<>>
    /\ ref = None
    /\ deg = Unbound
    /\ val = Unbound

CallsIdle ==
    /\ disk = <<>>
    /\ calls = <<>>

LocalsUnbound ==
    /\ m = Unbound
    /\ s = Unbound
    /\ pm = Unbound
    /\ lat = Unbound
    /\ lon = Unbound
    /\ dt = Unbound
    /\ make = Unbound
    /\ model = Unbound
    /\ extra = Unbound
    /\ result = Unbound

Init ==
    /\ pc = "exifread"
    /\ p = 1
    /\ LocalsUnbound
    /\ SidecarIdle
    /\ MainIdle
    /\ DmsIdle
    /\ CallsIdle

ExifreadStep == \E file \in FastFiles : Exifread(file)

ReadSidecarStep == \E files \in Sidecars : ReadSidecar(files)

FallbackStep == \E img \in Images : Fallback(img)

Next ==
    \/ ExifreadStep
    \/ ReadSidecarStep
    \/ FallbackStep
    \/ NoFallback
    \/ Return

Spec == Init /\ [][Next]_vars

(***************************************************************************)
(* SpecSidecar: one call of _read_takeout_sidecar, one action per          *)
(* candidate.  examined records, for each candidate the loop has reached,  *)
(* whether it was absent, malformed or parsed and the (lat, lon, dt) the   *)
(* loop body computed from it.                                             *)
(***************************************************************************)
ExifGeo == [latitude |-> Rat(11, 1), longitude |-> Rat(12, 1)]

GeoLat == Rat(21, 1)

GeoLon == Rat(22, 1)

LocLat == Rat(31, 1)

LocLon == Rat(32, 1)

\* the sidecar documents: every shape of the three geo objects and of the
\* time fields the reader distinguishes
GeoShapes ==
    [geoDataExif : {NotDict, ExifGeo,
                    [latitude |-> Rat(0, 1), longitude |-> Rat(0, 1)],
                    [latitude |-> Rat(11, 1), longitude |-> None],
                    [latitude |-> None, longitude |-> Rat(12, 1)],
                    [latitude |-> None, longitude |-> None]},
     geoData     : {NotDict} \cup
                   [latitude  : {None, BadNum, GeoLat},
                    longitude : {None, BadNum, GeoLon}],
     location    : {NotDict,
                    [latitude |-> LocLat, longitude |-> LocLon],
                    [latitude |-> LocLat, longitude |-> None]}]

\* with a photoTakenTime object the top-level fields are all set or all
\* missing; without one they vary
TimeShapes ==
    [photoTakenTime    : [formatted : {None, Str(""), Str("1 Jan 2020")},
                          timestamp : {None, Str(""), Str("1577836800")}],
     creationTime      : {None, Str("2 Feb 2021")},
     creationTimestamp : {None}]
    \cup
    [photoTakenTime    : {NotDict},
     creationTime      : {None, Str(""), Str("2 Feb 2021")},
     creationTimestamp : {None, Str("1612224000")}]

TakeoutDocs ==
    {[geoDataExif       |-> g.geoDataExif,
      geoData           |-> g.geoData,
      location          |-> g.location,
      photoTakenTime    |-> t.photoTakenTime,
      creationTime      |-> t.creationTime,
      creationTimestamp |-> t.creationTimestamp] :
        g \in GeoShapes, t \in TimeShapes}

TakeoutFiles == {Absent, Malformed, NonDict} \cup TakeoutDocs

\* lines 117-152: the loop body for candidate c
ExamineCandidate ==
    /\ pc = "candidates"
    /\ c <= 2
    /\ \E file \in TakeoutFiles :
         LET r == Candidate(file)
         IN  /\ examined' = Append(examined,
                              [kind |-> FileKind(file), held |-> Held(file)])
             /\ IF r # Continue
                THEN /\ ret' = r
                     /\ doc' = file
                     /\ pc' = "sidecar_returned"
                     /\ c' = c
                ELSE /\ c' = c + 1
                     /\ UNCHANGED <<ret, doc, pc>>
    /\ UNCHANGED <<p, rvars, mvars, dvars, cvars>>

\* line 154: return None, None, None
Exhausted ==
    /\ pc = "candidates"
    /\ c > 2
    /\ ret' = [lat |-> None, lon |-> None, dt |-> None]
    /\ pc' = "sidecar_returned"
    /\ UNCHANGED <<p, c, examined, doc, rvars, mvars, dvars, cvars>>

InitSidecar ==
    /\ pc = "candidates"
    /\ p = 1
    /\ c = 1
    /\ examined = <<>>
    /\ doc = Unbound
    /\ ret = Unbound
    /\ LocalsUnbound
    /\ MainIdle
    /\ DmsIdle
    /\ CallsIdle

NextSidecar ==
    \/ ExamineCandidate
    \/ Exhausted

SpecSidecar == InitSidecar /\ [][NextSidecar]_vars

(***************************************************************************)
(* SpecMain: main's scan loop over a directory of at most MaxPhotos        *)
(* photos, then the thumbnails, the reports and the map.  The paths of the *)
(* directory are 1..nfiles in the order scan_images yields them.           *)
(***************************************************************************)
MaxPhotos == 3

\* data_store.PhotoRepository.points, to_geojson: m.lat is not None and m.lon is not None
HasGps_lat_only(r) == r.lat # None

HasGps(r) == r.lat # None /\ r.lon # None

\* main, line 139: if m.lat is None or m.lon is None
NoGps_both(r) == r.lat = None /\ r.lon = None

NoGps(r) == r.lat = None \/ r.lon = None

points(its) ==
    LET g == SelectSeq(its, HasGps)
    IN  [i \in 1..Len(g) |-> <<g[i].lat, g[i].lon>>]

\* thumbs.get(m.path) if thumbs else None
ThumbOf(thumbs, path) ==
    IF path \in DOMAIN thumbs THEN thumbs[path] ELSE None

\* the features to_geojson writes
Features(its, thumbs) ==
    LET g == SelectSeq(its, HasGps)
    IN  [i \in 1..Len(g) |->
           [coordinates |-> <<g[i].lon, g[i].lat>>,
            path        |-> g[i].path,
            datetime    |-> g[i].datetime,
            make        |-> g[i].make,
            model       |-> g[i].model,
            extra       |-> g[i].extra,
            thumb       |-> ThumbOf(thumbs, g[i].path)]]

\* the rows to_csv writes
CsvRows(its) ==
    [i \in 1..Len(its) |->
       [path |-> its[i].path, lat |-> its[i].lat, lon |-> its[i].lon,
        datetime |-> its[i].datetime, make |-> its[i].make,
        model |-> its[i].model, extra |-> its[i].extra]]

\* what a scanned file was, from what the three strategies found in it:
\* full fast-parser GPS, nothing but a valid sidecar, or nothing readable
PhotoKind(fast, side, dec) ==
    IF fast # None /\ HasGps(fast) /\ ~(BelowEps(fast.lat) /\ BelowEps(fast.lon))
    THEN "fast_gps"
    ELSE IF /\ (fast = None \/ (fast.lat = None /\ fast.lon = None))
            /\ (dec = Unbound \/ dec = None)
            /\ side.lat # None /\ side.lon # None
            /\ ~(BelowEps(side.lat) /\ BelowEps(side.lon))
    THEN "sidecar_only"
    ELSE IF fast = None /\ side = [lat |-> None, lon |-> None, dt |-> None]
            /\ dec = None
    THEN "unreadable"
    ELSE "other"

NoGpsTags ==
    [lat_vals |-> None, lat_ref |-> None, lon_vals |-> None, lon_ref |-> None,
     dto |-> None, idt |-> None, make |-> Str("Canon"), model |-> None]

LondonTags ==
    [lat_vals |-> Some(LondonDMS), lat_ref |-> Str("N"),
     lon_vals |-> Some(WestDMS), lon_ref |-> Str("W"),
     dto |-> Str("2020:01:01 10:00:00"), idt |-> None,
     make |-> Str("Canon"), model |-> Str("EOS")]

ZeroTags ==
    [lat_vals |-> Some(ZeroDMS), lat_ref |-> Str("N"),
     lon_vals |-> Some(ZeroDMS), lon_ref |-> None,
     dto |-> None, idt |-> None, make |-> None, model |-> None]

HalfTags ==
    [lat_vals |-> Some(LondonDMS), lat_ref |-> Str("N"),
     lon_vals |-> Some(ZeroDenDMS), lon_ref |-> Str("W"),
     dto |-> None, idt |-> None, make |-> None, model |-> None]

DirFastFiles == {Unreadable, NoGpsTags, LondonTags, ZeroTags, HalfTags}

NewYorkDoc ==
    [geoDataExif       |-> NotDict,
     geoData           |-> [latitude |-> NewYorkLat, longitude |-> NewYorkLon],
     location          |-> NotDict,
     photoTakenTime    |-> TakenTime,
     creationTime      |-> None,
     creationTimestamp |-> None]

LatOnlyDoc ==
    [geoDataExif       |-> NotDict,
     geoData           |-> [latitude |-> NewYorkLat, longitude |-> None],
     location          |-> NotDict,
     photoTakenTime    |-> TakenTime,
     creationTime      |-> None,
     creationTimestamp |-> None]

DirSidecars ==
    {<<Absent, Absent>>, <<Malformed, Absent>>, <<NewYorkDoc, Absent>>,
     <<Absent, LatOnlyDoc>>}

ParisTable ==
    [gps   |-> [lat |-> ParisLatDMS, lat_ref |-> Str("N"),
                lon |-> ParisLonDMS, lon_ref |-> Str("E"),
                alt |-> Some(R(35, 1))],
     dto   |-> Str("2019:03:03 12:00:00"),
     dt    |-> None,
     make  |-> Str("Apple"),
     model |-> Str("iPhone")]

DirImages == {Unidentified, ParisTable}

\* scan_images: another path is yielded while files remain and the limit,
\* if any, is not reached
ScanContinues(n, lim, cnt) == cnt < n /\ (lim = 0 \/ cnt < lim)

\* main, lines 136-138: the next path, total += 1, the call of read_photo_meta
Scan ==
    /\ pc = "scan"
    /\ IF ScanContinues(nfiles, limit, count)
       THEN /\ count' = count + 1
            /\ p' = count + 1
            /\ total' = total + 1
            /\ pc' = "exifread"
       ELSE /\ pc' = "thumbs"
            /\ UNCHANGED <<count, p, total>>
    /\ m' = Unbound
    /\ s' = Unbound
    /\ pm' = Unbound
    /\ lat' = Unbound
    /\ lon' = Unbound
    /\ dt' = Unbound
    /\ make' = Unbound
    /\ model' = Unbound
    /\ extra' = Unbound
    /\ result' = Unbound
    /\ UNCHANGED <<nfiles, limit, items, skipped, with_gps, without_gps, kinds,
                   gps_paths, thumb_map, geojson, csv, skipped_txt, pts,
                   svars, dvars, cvars>>

DirExifread == \E file \in DirFastFiles : Exifread(file)

DirReadSidecar == \E files \in DirSidecars : ReadSidecar(files)

DirFallback == \E img \in DirImages : Fallback(img)

\* main, lines 139-148: repo.skip(p) or with_gps += 1, then repo.add(m)
Classify ==
    /\ pc = "returned"
    /\ IF NoGps(result)
       THEN /\ skipped' = Append(skipped, p)
            /\ without_gps' = without_gps + 1
            /\ UNCHANGED with_gps
       ELSE /\ with_gps' = with_gps + 1
            /\ UNCHANGED <<skipped, without_gps>>
    /\ items' = Append(items, result)
    /\ kinds' = Append(kinds, PhotoKind(m, s, pm))
    /\ pc' = "scan"
    /\ UNCHANGED <<p, rvars, svars, dvars, cvars, nfiles, limit, count, total, gps_paths,
                   thumb_map, geojson, csv, skipped_txt, pts>>

\* thumbnails._safe_thumb_name and the relative path of the thumbnail
ThumbRel(path) == [thumbs |-> path]

\* make_thumbnails called with the path of every stored record
MakeThumbnails_all_items ==
    /\ pc = "thumbs"
    /\ LET g == items
           paths == [i \in 1..Len(g) |-> g[i].path]
       IN  /\ gps_paths' = paths
           /\ \E ok \in SUBSET {paths[i] : i \in 1..Len(paths)} :
                thumb_map' = [q \in ok |-> ThumbRel(q)]
    /\ pc' = "reports"
    /\ UNCHANGED <<p, rvars, svars, dvars, cvars, nfiles, limit, count, items, skipped, total,
                   with_gps, without_gps, kinds, geojson, csv, skipped_txt, pts>>

\* main, lines 152-155: make_thumbnails maps every path it could open
MakeThumbnails ==
    /\ pc = "thumbs"
    /\ LET g == SelectSeq(items, HasGps)
           paths == [i \in 1..Len(g) |-> g[i].path]
       IN  /\ gps_paths' = paths
           /\ \E ok \in SUBSET {paths[i] : i \in 1..Len(paths)} :
                thumb_map' = [q \in ok |-> ThumbRel(q)]
    /\ pc' = "reports"
    /\ UNCHANGED <<p, rvars, svars, dvars, cvars, nfiles, limit, count, items, skipped, total,
                   with_gps, without_gps, kinds, geojson, csv, skipped_txt, pts>>

\* an export that drops the records it does not write from the store
WriteReports_prunes_items ==
    /\ pc = "reports"
    /\ geojson' = Features(items, thumb_map)
    /\ csv' = CsvRows(items)
    /\ skipped_txt' = skipped
    /\ items' = SelectSeq(items, HasGps)
    /\ pc' = "build_map"
    /\ UNCHANGED <<p, rvars, svars, dvars, cvars, nfiles, limit, count, skipped, total,
                   with_gps, without_gps, kinds, gps_paths, thumb_map, pts>>

\* main, line 158: repo.write_reports(out_html, thumbs=thumb_map)
WriteReports ==
    /\ pc = "reports"
    /\ geojson' = Features(items, thumb_map)
    /\ csv' = CsvRows(items)
    /\ skipped_txt' = skipped
    /\ pc' = "build_map"
    /\ UNCHANGED <<p, rvars, svars, dvars, cvars, nfiles, limit, count, items, skipped, total,
                   with_gps, without_gps, kinds, gps_paths, thumb_map, pts>>

\* main, lines 161-174: pts = repo.points() handed to build_map
BuildMap ==
    /\ pc = "build_map"
    /\ pts' = points(items)
    /\ pc' = "done"
    /\ UNCHANGED <<p, rvars, svars, dvars, cvars, nfiles, limit, count, items, skipped, total,
                   with_gps, without_gps, kinds, gps_paths, thumb_map, geojson,
                   csv, skipped_txt>>

InitMain ==
    /\ pc = "scan"
    /\ p = 0
    /\ nfiles \in 0..MaxPhotos
    /\ limit \in 0..MaxPhotos
    /\ count = 0
    /\ items = <<>>
    /\ skipped = <<>>
    /\ total = 0
    /\ with_gps = 0
    /\ without_gps = 0
    /\ kinds = <<>>
    /\ gps_paths = Unbound
    /\ thumb_map = Unbound
    /\ geojson = Unbound
    /\ csv = Unbound
    /\ skipped_txt = Unbound
    /\ pts = Unbound
    /\ LocalsUnbound
    /\ SidecarIdle
    /\ DmsIdle
    /\ CallsIdle

NextMain ==
    \/ Scan
    \/ DirExifread
    \/ DirReadSidecar
    \/ DirFallback
    \/ NoFallback
    \/ Return
    \/ Classify
    \/ MakeThumbnails
    \/ WriteReports
    \/ BuildMap

SpecMain == InitMain /\ [][NextMain]_vars

(***************************************************************************)
(* SpecDms: one call of dms_to_decimal and one of _ratios_to_decimal on    *)
(* the same list of components and the same reference.                     *)
(***************************************************************************)
\* a component that is no (num, den) pair
NoPair == [bad |-> TRUE]

DegComps ==
    {R(0, 1), R(51, 1), R(89, 1), R(179, 2), R(90, 1), R(179, 1), R(180, 1),
     R(-12, 1)}

MinComps == {R(0, 1), R(30, 1), R(59, 1), R(30, 0)}

SecComps == {R(0, 1), R(26, 1), R(599, 10), NoPair}

FourDMS == <<R(51, 1), R(30, 1), R(26, 1), R(0, 1)>>

FourZeroDenDMS == <<R(51, 1), R(30, 1), R(26, 1), R(0, 0)>>

DmsLists ==
    {<<a, b, e>> : a \in DegComps, b \in MinComps, e \in SecComps}
    \cup {<<>>, ShortDMS, FourDMS, FourZeroDenDMS}

Refs == {None, Str("N"), Str("S"), Str("E"), Str("W"), Str("s")}

\* geo_utils.dms_to_decimal(dms, ref)
CallDms ==
    /\ pc = "conversions"
    /\ deg = Unbound
    /\ deg' = dms_to_decimal(dms, ref)
    /\ UNCHANGED <<pc, p, rvars, svars, mvars, dms, ref, val, cvars>>

\* exif_loader._ratios_to_decimal(parts, ref)
CallRatios ==
    /\ pc = "conversions"
    /\ val = Unbound
    /\ val' = _ratios_to_decimal(dms, ref)
    /\ UNCHANGED <<pc, p, rvars, svars, mvars, dms, ref, deg, cvars>>

InitDms ==
    /\ pc = "conversions"
    /\ p = 0
    /\ dms \in DmsLists
    /\ ref \in Refs
    /\ deg = Unbound
    /\ val = Unbound
    /\ LocalsUnbound
    /\ SidecarIdle
    /\ MainIdle
    /\ CallsIdle

NextDms ==
    \/ CallDms
    \/ CallRatios

SpecDms == InitDms /\ [][NextDms]_vars

(***************************************************************************)
(* SpecCalls: MaxCalls calls of read_photo_meta in flight at once, call k  *)
(* resolving path k.  Each call has a frame of its own; the steps of the   *)
(* calls interleave in any order, one call running to its end before the   *)
(* next starts included.                                                   *)
(***************************************************************************)
MaxCalls == 2

\* read_photo_meta(path) on a path whose file, sidecar candidates and decoded
\* image hold file, files and img
read_photo_meta(path, file, files, img) ==
    LET fast == _exifread_extract(path, file)
        side == _read_takeout_sidecar(files)
    IN  IF fast = Raise \/ side = Raise THEN Raise
        ELSE
        LET F(f) == IF fast # None THEN fast[f] ELSE None
            la   == FillGap(F("lat"), side.lat)
            lo   == FillGap(F("lon"), side.lon)
            d    == FillGap(F("datetime"), side.dt)
            dec  == IF NeedsPillow(la, lo, fast) THEN _pillow_extract(path, img)
                    ELSE None
        IN  IF dec = Raise THEN Raise
            ELSE
            LET la2 == IF dec # None THEN IfNone(la, dec.lat) ELSE la
                lo2 == IF dec # None THEN IfNone(lo, dec.lon) ELSE lo
                d2  == IF dec # None THEN IfNone(d, dec.datetime) ELSE d
                mk  == IF dec # None THEN IfNone(F("make"), dec.make) ELSE F("make")
                md  == IF dec # None THEN IfNone(F("model"), dec.model)
                       ELSE F("model")
                ex  == IF dec # None THEN DictUpdate(EmptyDict, dec.extra)
                       ELSE EmptyDict
                ll  == _drop_if_zero_coord(la2, lo2)
            IN  PhotoMeta(path, ll[1], ll[2], d2, mk, md, ex)

CallFastFiles == {Unreadable, LondonTags, HalfTags}

CallSidecars == {<<Absent, Absent>>, <<NewYorkDoc, Absent>>}

CallImages == {Unidentified, ParisTable}

\* the frame of a call that has not run its first statement
NewFrame(path) ==
    [pc |-> "exifread", path |-> path, m |-> Unbound, s |-> Unbound,
     pm |-> Unbound, lat |-> Unbound, lon |-> Unbound, dt |-> Unbound,
     make |-> Unbound, model |-> Unbound, extra |-> Unbound,
     result |-> Unbound]

\* the dict of another call's frame bound to extra: one object shared by
\* the calls
ExifreadOf_shared_extra(k) ==
    /\ calls[k].pc = "exifread"
    /\ LET fr == calls[k]
           r  == _exifread_extract(fr.path, disk[fr.path].file)
           bound == {j \in DOMAIN calls : j # k /\ calls[j].extra # Unbound}
       IN  calls' = [calls EXCEPT ![k] =
              IF r = Raise THEN [fr EXCEPT !.pc = "raised"]
              ELSE [fr EXCEPT !.m = r,
                              !.lat = IF r # None THEN r.lat ELSE None,
                              !.lon = IF r # None THEN r.lon ELSE None,
                              !.dt = IF r # None THEN r.datetime ELSE None,
                              !.make = IF r # None THEN r.make ELSE None,
                              !.model = IF r # None THEN r.model ELSE None,
                              !.extra = IF bound = {} THEN EmptyDict
                                        ELSE calls[CHOOSE j \in bound : TRUE].extra,
                              !.pc = "sidecar"]]
    /\ UNCHANGED <<pc, p, rvars, svars, mvars, dvars, disk>>

\* lines 236-243 in call k
ExifreadOf(k) ==
    /\ calls[k].pc = "exifread"
    /\ LET fr == calls[k]
           r  == _exifread_extract(fr.path, disk[fr.path].file)
       IN  calls' = [calls EXCEPT ![k] =
              IF r = Raise THEN [fr EXCEPT !.pc = "raised"]
              ELSE [fr EXCEPT !.m = r,
                              !.lat = IF r # None THEN r.lat ELSE None,
                              !.lon = IF r # None THEN r.lon ELSE None,
                              !.dt = IF r # None THEN r.datetime ELSE None,
                              !.make = IF r # None THEN r.make ELSE None,
                              !.model = IF r # None THEN r.model ELSE None,
                              !.extra = EmptyDict,
                              !.pc = "sidecar"]]
    /\ UNCHANGED <<pc, p, rvars, svars, mvars, dvars, disk>>

\* lines 245-252 in call k
ReadSidecarOf(k) ==
    /\ calls[k].pc = "sidecar"
    /\ LET fr == calls[k]
           r  == _read_takeout_sidecar(disk[fr.path].files)
       IN  calls' = [calls EXCEPT ![k] =
              IF r = Raise THEN [fr EXCEPT !.pc = "raised"]
              ELSE [fr EXCEPT !.s = r,
                              !.lat = FillGap(fr.lat, r.lat),
                              !.lon = FillGap(fr.lon, r.lon),
                              !.dt = FillGap(fr.dt, r.dt),
                              !.pc = "fallback"]]
    /\ UNCHANGED <<pc, p, rvars, svars, mvars, dvars, disk>>

\* lines 254-268 in call k
FallbackOf(k) ==
    /\ calls[k].pc = "fallback"
    /\ NeedsPillow(calls[k].lat, calls[k].lon, calls[k].m)
    /\ LET fr == calls[k]
           r  == _pillow_extract(fr.path, disk[fr.path].img)
       IN  calls' = [calls EXCEPT ![k] =
              IF r = Raise THEN [fr EXCEPT !.pc = "raised"]
              ELSE IF r = None THEN [fr EXCEPT !.pm = r, !.pc = "sentinel"]
              ELSE [fr EXCEPT !.pm = r,
                              !.lat = IfNone(fr.lat, r.lat),
                              !.lon = IfNone(fr.lon, r.lon),
                              !.dt = IfNone(fr.dt, r.datetime),
                              !.make = IfNone(fr.make, r.make),
                              !.model = IfNone(fr.model, r.model),
                              !.extra = DictUpdate(fr.extra, r.extra),
                              !.pc = "sentinel"]]
    /\ UNCHANGED <<pc, p, rvars, svars, mvars, dvars, disk>>

\* line 255 is false in call k
NoFallbackOf(k) ==
    /\ calls[k].pc = "fallback"
    /\ ~NeedsPillow(calls[k].lat, calls[k].lon, calls[k].m)
    /\ calls' = [calls EXCEPT ![k].pc = "sentinel"]
    /\ UNCHANGED <<pc, p, rvars, svars, mvars, dvars, disk>>

\* lines 270-274 in call k
ReturnOf(k) ==
    /\ calls[k].pc = "sentinel"
    /\ LET fr == calls[k]
           ll == _drop_if_zero_coord(fr.lat, fr.lon)
       IN  calls' = [calls EXCEPT ![k] =
              [fr EXCEPT !.lat = ll[1],
                         !.lon = ll[2],
                         !.result = PhotoMeta(fr.path, ll[1], ll[2], fr.dt, fr.make,
                                              fr.model, fr.extra),
                         !.pc = "returned"]]
    /\ UNCHANGED <<pc, p, rvars, svars, mvars, dvars, disk>>

InitCalls ==
    /\ pc = "calls"
    /\ p = 0
    /\ disk \in [1..MaxCalls ->
                   [file : CallFastFiles, files : CallSidecars, img : CallImages]]
    /\ calls = [k \in 1..MaxCalls |-> NewFrame(k)]
    /\ LocalsUnbound
    /\ SidecarIdle
    /\ MainIdle
    /\ DmsIdle

ExifreadStepOf == \E k \in 1..MaxCalls : ExifreadOf(k)

ReadSidecarStepOf == \E k \in 1..MaxCalls : ReadSidecarOf(k)

FallbackStepOf == \E k \in 1..MaxCalls : FallbackOf(k)

NoFallbackStepOf == \E k \in 1..MaxCalls : NoFallbackOf(k)

ReturnStepOf == \E k \in 1..MaxCalls : ReturnOf(k)

NextCalls ==
    \/ ExifreadStepOf
    \/ ReadSidecarStepOf
    \/ FallbackStepOf
    \/ NoFallbackStepOf
    \/ ReturnStepOf

SpecCalls == InitCalls /\ [][NextCalls]_vars

(***************************************************************************)
(* SpecExtract: one call of _exifread_extract and one of _pillow_extract   *)
(* on the file and the decoded image at path 1, m and pm receiving what    *)
(* they return.                                                            *)
(***************************************************************************)
\* a component that is no pair of numbers
BadDMS == <<R(51, 1), NoPair, R(26, 1)>>

ExtractTags ==
    [lat_vals : {None, Some(LondonDMS), Some(ZeroDenDMS), Some(ShortDMS),
                 Some(BadDMS), Some(FourDMS)},
     lat_ref  : {Str("N"), Str("S")},
     lon_vals : {None, Some(WestDMS), Some(ZeroDenDMS), Some(ShortDMS),
                 Some(BadDMS)},
     lon_ref  : {Str("W")},
     dto      : {None, Str("2020:01:01 10:00:00")},
     idt      : {Str("2021:02:02 11:00:00")},
     make     : {Str(""), Str("Canon")},
     model    : {Str("EOS")}]

ExtractFiles == {Unreadable} \cup ExtractTags

ExtractGps ==
    [lat     : {<<>>, ParisLatDMS, ZeroDenDMS, BadDMS, FourDMS},
     lat_ref : {Str("N")},
     lon     : {<<>>, ParisLonDMS, ZeroDenDMS, ShortDMS},
     lon_ref : {Str("E")},
     alt     : {None, Some(R(35, 1)), Some(R(71, 2)), Some(R(1, 0)), Some(NoPair)}]

ExtractImages ==
    {Unidentified} \cup
    [gps   : {None} \cup ExtractGps,
     dto   : {None, Str("2019:03:03 12:00:00")},
     dt    : {Str("2019:04:04 13:00:00")},
     make  : {Str("Apple")},
     model : {None, Str("iPhone")}]

\* m = _exifread_extract(path)
ExtractFast ==
    /\ pc = "strategies"
    /\ m = Unbound
    /\ m' = _exifread_extract(p, disk[p].file)
    /\ UNCHANGED <<pc, p, s, pm, lat, lon, dt, make, model, extra, result,
                   svars, mvars, dvars, cvars>>

\* pm = _pillow_extract(path)
ExtractDecoded ==
    /\ pc = "strategies"
    /\ pm = Unbound
    /\ pm' = _pillow_extract(p, disk[p].img)
    /\ UNCHANGED <<pc, p, m, s, lat, lon, dt, make, model, extra, result,
                   svars, mvars, dvars, cvars>>

InitExtract ==
    /\ pc = "strategies"
    /\ p = 1
    /\ disk \in [{1} -> [file : ExtractFiles, files : {<<Absent, Absent>>},
                         img : ExtractImages]]
    /\ calls = <<>>
    /\ LocalsUnbound
    /\ SidecarIdle
    /\ MainIdle
    /\ DmsIdle

NextExtract ==
    \/ ExtractFast
    \/ ExtractDecoded

SpecExtract == InitExtract /\ [][NextExtract]_vars

(***************************************************************************)
(* Properties of one call of read_photo_meta (Spec).                       *)
(***************************************************************************)
NoSidecar == [lat |-> None, lon |-> None, dt |-> None]

Returned == pc = "returned"

\* the value a source delivered for a field, None when the source gave no record
FastField(f) == IF m = None THEN None ELSE m[f]

DecoderField(f) == IF pm = Unbound \/ pm = None THEN None ELSE pm[f]

\* the first value of a sequence that is not None
FirstSet(seq) ==
    IF \A i \in 1..Len(seq) : seq[i] = None THEN None
    ELSE seq[CHOOSE i \in 1..Len(seq) :
                /\ seq[i] # None
                /\ \A j \in 1..(i - 1) : seq[j] = None]

\* C1: read_photo_meta returns a PhotoMeta whatever the three strategies
\* deliver: no exception leaves it, every step before the return can be taken,
\* and when all three strategies fail the record is the empty one, lat and lon
\* both None.
C1_AlwaysReturnsRecord ==
    /\ pc # "raised"
    /\ pc \in {"exifread", "sidecar", "fallback", "sentinel"} => ENABLED Next
    /\ Returned =>
         /\ DOMAIN result =
              {"path", "lat", "lon", "datetime", "make", "model", "extra"}
         /\ result.path = p
         /\ (m = None /\ s = NoSidecar /\ pm = None) =>
              result = PhotoMeta(p, None, None, None, None, None, EmptyDict)

C1_Witness ==
    /\ Returned
    /\ m = None
    /\ s = NoSidecar
    /\ pm = None
    /\ result.lat = None
    /\ result.lon = None

\* C2: in every returned record lat and lon are both None or both set.
C2_BothOrNeither ==
    Returned => (result.lat = None <=> result.lon = None)

\* C3 as stated: the decoder fallback is invoked exactly when the fast parser
\* returned None and no coordinate was found by the sidecar merge.
C3_Original ==
    pc \in {"sentinel", "returned"} =>
      (pm # Unbound <=>
         /\ m = None
         /\ FirstSet(<<FastField("lat"), s.lat>>) = None
         /\ FirstSet(<<FastField("lon"), s.lon>>) = None)

\* C3 amended: the decoder fallback is invoked exactly when the fast parser
\* returned None and at least one of lat, lon is still None after the sidecar
\* merge; when the fast parser returned a record it is never invoked.
C3_FallbackRule ==
    pc \in {"sentinel", "returned"} =>
      /\ pm # Unbound <=>
           /\ m = None
           /\ \/ FirstSet(<<FastField("lat"), s.lat>>) = None
              \/ FirstSet(<<FastField("lon"), s.lon>>) = None
      /\ m # None => pm = Unbound

C3_Witness ==
    /\ Returned
    /\ m = None
    /\ s.lat # None
    /\ s.lon = None
    /\ pm # Unbound

\* C4: before the sentinel filter lat, lon and datetime are the first value set
\* in the order fast parser, sidecar, decoder, and make and model the first in
\* the order fast parser, decoder; after the sidecar merge and before the
\* decoder the same holds of the sources consulted so far.
C4_GapFilling ==
    /\ pc = "fallback" =>
         /\ lat = FirstSet(<<FastField("lat"), s.lat>>)
         /\ lon = FirstSet(<<FastField("lon"), s.lon>>)
         /\ dt = FirstSet(<<FastField("datetime"), s.dt>>)
         /\ make = FastField("make")
         /\ model = FastField("model")
    /\ pc = "sentinel" =>
         /\ lat = FirstSet(<<FastField("lat"), s.lat, DecoderField("lat")>>)
         /\ lon = FirstSet(<<FastField("lon"), s.lon, DecoderField("lon")>>)
         /\ dt = FirstSet(<<FastField("datetime"), s.dt, DecoderField("datetime")>>)
         /\ make = FirstSet(<<FastField("make"), DecoderField("make")>>)
         /\ model = FirstSet(<<FastField("model"), DecoderField("model")>>)

\* a sidecar latitude kept although the decoder delivered another one
C4_Witness ==
    /\ pc = "sentinel"
    /\ m = None
    /\ s.lat # None
    /\ s.lon = None
    /\ DecoderField("lat") # None
    /\ DecoderField("lat") # s.lat
    /\ lat = s.lat
    /\ lon = DecoderField("lon")
    /\ lon # None

FastComplete ==
    /\ m # Unbound
    /\ m # None
    /\ m.lat # None
    /\ m.lon # None
    /\ m.datetime # None
    /\ m.make # None
    /\ m.model # None

\* C5 as stated: after a complete fast-parser record the returned lat, lon,
\* datetime, make and model are those of the fast parser.
C5_Original ==
    (Returned /\ FastComplete) =>
      /\ result.lat = m.lat
      /\ result.lon = m.lon
      /\ result.datetime = m.datetime
      /\ result.make = m.make
      /\ result.model = m.model

\* C5 amended: after a complete fast-parser record the sidecar and the decoder
\* contribute nothing: datetime, make and model are the fast parser's, the
\* decoder is not invoked, and (lat, lon) is the fast parser's pair unless both
\* of its components are below 1e-9 in magnitude, when it is (None, None).
C5_CompleteFastWins ==
    (Returned /\ FastComplete) =>
      /\ result.datetime = m.datetime
      /\ result.make = m.make
      /\ result.model = m.model
      /\ result.extra = EmptyDict
      /\ pm = Unbound
      /\ IF BelowEps(m.lat) /\ BelowEps(m.lon)
         THEN result.lat = None /\ result.lon = None
         ELSE result.lat = m.lat /\ result.lon = m.lon

C5_Witness ==
    /\ Returned
    /\ FastComplete
    /\ s.lat # None
    /\ s.lon # None
    /\ s.dt # None
    /\ s.lat # m.lat
    /\ s.dt # m.datetime
    /\ result.lat = m.lat
    /\ result.datetime = m.datetime

\* C6: the pair read_photo_meta returns is the merged pair passed through the
\* sentinel filter as its last step: (None, None) when both merged coordinates
\* are set and both below 1e-9 in magnitude, the merged pair unchanged in every
\* other case, one near-zero component included.
C6_SentinelRule ==
    [][pc = "sentinel" =>
         /\ pc' = "returned"
         /\ IF lat # None /\ lon # None /\ BelowEps(lat) /\ BelowEps(lon)
            THEN result'.lat = None /\ result'.lon = None
            ELSE result'.lat = lat /\ result'.lon = lon]_vars

\* a returned pair whose latitude is exactly zero and whose longitude is not
C6_Witness ==
    /\ Returned
    /\ result.lat = Rat(0, 1)
    /\ result.lon # None
    /\ ~BelowEps(result.lon)

\* no candidate the reader reached could be parsed
NoneParsed == \A i \in 1..Len(examined) : examined[i].kind \in {"absent", "malformed"}

\* the record read_photo_meta returns for fast-parser result fast and decoder
\* result dec when there is no sidecar file
WithoutSidecar(path, fast, dec) ==
    LET F(f) == IF fast = None THEN None ELSE fast[f]
        D(f) == IF dec = Unbound \/ dec = None THEN None ELSE dec[f]
        ll == _drop_if_zero_coord(FirstSet(<<F("lat"), D("lat")>>),
                                  FirstSet(<<F("lon"), D("lon")>>))
    IN  PhotoMeta(path, ll[1], ll[2],
                  FirstSet(<<F("datetime"), D("datetime")>>),
                  FirstSet(<<F("make"), D("make")>>),
                  FirstSet(<<F("model"), D("model")>>),
                  IF dec = Unbound \/ dec = None THEN EmptyDict ELSE dec.extra)

\* C11: a malformed sidecar candidate raises nothing: the call goes on to the
\* return.  When no candidate could be parsed (each one is absent or
\* malformed) the reader delivers (None, None, None), the decoder is invoked
\* exactly when the fast parser failed, and the returned record is the one
\* the fast parser and the decoder give without any sidecar file.
C11_MalformedAsAbsent ==
    /\ pc # "raised"
    /\ (pc \in {"fallback", "sentinel", "returned"} /\ NoneParsed) =>
         /\ Len(examined) = 2
         /\ s = NoSidecar
    /\ (pc \in {"sentinel", "returned"} /\ NoneParsed) =>
         (pm # Unbound <=> m = None)
    /\ (Returned /\ NoneParsed) => result = WithoutSidecar(p, m, pm)

\* both candidates exist and are malformed; the coordinates come from the decoder
C11_Witness ==
    /\ Returned
    /\ Len(examined) = 2
    /\ examined[1].kind = "malformed"
    /\ examined[2].kind = "malformed"
    /\ m = None
    /\ result.lat # None
    /\ result = WithoutSidecar(p, m, pm)

\* C16: extra is empty after the fast parser and after the sidecar merge;
\* after the decoder step it is empty when the decoder was not invoked or
\* returned None, and holds the decoder's keys otherwise; no step changes or
\* removes a key extra already has; the returned record carries extra as it is.
C16_ExtraAdditive ==
    [][/\ pc' \in {"sidecar", "fallback"} => extra' = EmptyDict
       /\ pc' \in {"sentinel", "returned"} =>
            extra' = (IF pm' = Unbound \/ pm' = None THEN EmptyDict ELSE pm'.extra)
       /\ pc' = "returned" => result'.extra = extra'
       /\ pc \in {"sidecar", "fallback", "sentinel"} =>
            \A k \in DOMAIN extra : k \in DOMAIN extra' /\ extra'[k] = extra[k]]_vars

\* the decoder contributed the altitude
C16_Witness ==
    /\ Returned
    /\ pm # Unbound
    /\ pm # None
    /\ "altitude_m" \in DOMAIN result.extra
    /\ result.extra = pm.extra

\* the fast parser delivered the pair (0, 0)
FastZeroPair ==
    /\ m # Unbound
    /\ m # None
    /\ m.lat = Rat(0, 1)
    /\ m.lon = Rat(0, 1)

\* C24: a (0, 0) pair from the fast parser counts as resolved until the
\* sentinel filter runs: the sidecar's coordinates are not merged, whatever
\* they are, the decoder is not invoked, and the filter, run once as the last
\* step, turns the pair into (None, None), which is what the call returns.
C24_ZeroPairBlocksLaterSources ==
    FastZeroPair =>
      /\ pc \in {"sidecar", "fallback", "sentinel"} =>
           lat = Rat(0, 1) /\ lon = Rat(0, 1)
      /\ pm = Unbound
      /\ Returned =>
           /\ result.lat = None
           /\ result.lon = None
           /\ lat = None
           /\ lon = None
           /\ result.extra = EmptyDict

\* the fast parser gave (0, 0), the sidecar holds New York, and the call
\* returned no coordinates
C24_Witness ==
    /\ Returned
    /\ FastZeroPair
    /\ s.lat = NewYorkLat
    /\ s.lon = NewYorkLon
    /\ pm = Unbound
    /\ result.lat = None
    /\ result.lon = None

\* what a step of the call may do to the sidecar triple and to the decoder's
\* record
ConsultStep ==
    /\ pc = "sidecar" => s' # Unbound
    /\ s' # s =>
         /\ pc = "sidecar"
         /\ s = Unbound
         /\ m # Unbound
         /\ pm = Unbound
    /\ examined' # examined => pc = "sidecar"
    /\ m' # m => pc = "exifread" /\ s = Unbound
    /\ pm' # pm => pc = "fallback" /\ s # Unbound /\ s' = s

\* C20: the sidecar reader runs once in every call, after the fast parser
\* has delivered its record or None and before the decoder is opened: the
\* triple s is unassigned up to the sidecar step, is assigned by that step
\* and by no other, whatever m is, and the decoder's record is never
\* assigned while s is unassigned.
C20_SidecarConsultedOnce ==
    /\ [](/\ pc # "raised"
          /\ pc = "exifread" => m = Unbound
          /\ pc \in {"exifread", "sidecar"} => s = Unbound /\ pm = Unbound
          /\ pc \in {"sidecar", "fallback", "sentinel", "returned"} => m # Unbound
          /\ pc \in {"fallback", "sentinel", "returned"} =>
                s # Unbound /\ Len(examined) >= 1)
    /\ [][ConsultStep]_vars

\* the fast parser failed; the sidecar was read and gave a time only, and
\* the decoder ran after it
C20_Witness ==
    /\ Returned
    /\ m = None
    /\ s # Unbound
    /\ s.lat = None
    /\ s.dt # None
    /\ pm # Unbound
    /\ pm # None
    /\ result.datetime = s.dt

(***************************************************************************)
(* Properties of one call of _read_takeout_sidecar (SpecSidecar).          *)
(***************************************************************************)
SidecarReturned == pc = "sidecar_returned"

\* a geo object with a latitude and a longitude that are both numbers
CompletePair(gd) ==
    /\ "latitude" \in DOMAIN gd
    /\ gd.latitude \notin {None, BadNum}
    /\ gd.longitude \notin {None, BadNum}

KeyPriority == <<"geoDataExif", "geoData", "location">>

\* C9: when the document the reader returns from holds a complete numeric
\* pair under some geo key, the returned pair is that of the first such key in
\* the order geoDataExif, geoData, location, whatever the later keys hold.
C9_FirstCompleteKey ==
    (SidecarReturned /\ doc # Unbound) =>
      LET K == {k \in 1..3 : CompletePair(doc[KeyPriority[k]])}
          first == CHOOSE k \in K : \A j \in K : k <= j
      IN  K # {} =>
            /\ ret.lat = doc[KeyPriority[first]].latitude
            /\ ret.lon = doc[KeyPriority[first]].longitude

\* geoDataExif and geoData both complete and different: geoDataExif returned
C9_Witness ==
    /\ SidecarReturned
    /\ doc # Unbound
    /\ CompletePair(doc.geoDataExif)
    /\ CompletePair(doc.geoData)
    /\ doc.geoDataExif.latitude # doc.geoData.latitude
    /\ ret.lat = doc.geoDataExif.latitude
    /\ ret.lon = doc.geoDataExif.longitude

\* a (lat, lon, dt) with a complete pair or a datetime
PairOrTime(t) == (t.lat # None /\ t.lon # None) \/ t.dt # None

\* C10 as stated: the first candidate that is successfully parsed ends the
\* search, and the call returns what that file holds.
C10_Original ==
    \A i \in 1..Len(examined) :
      examined[i].kind = "parsed" =>
        /\ i = Len(examined)
        /\ SidecarReturned
        /\ ret = examined[i].held

\* C10 amended: the candidates are examined in the order <filename>.json,
\* <stem>.json; the first one that parses to an object holding a complete
\* coordinate pair or a datetime ends the search and its (lat, lon, dt) is
\* returned; an absent or malformed candidate, and one that parses but holds
\* neither, is passed over; (None, None, None) is returned exactly when both
\* candidates were passed over.
C10_FirstYieldingCandidate ==
    /\ pc = "candidates" => c = Len(examined) + 1
    /\ \A i \in 1..Len(examined) :
         IF examined[i].kind = "parsed" /\ PairOrTime(examined[i].held)
         THEN /\ i = Len(examined)
              /\ SidecarReturned
              /\ ret = examined[i].held
         ELSE \/ i < Len(examined)
              \/ pc = "candidates"
              \/ /\ SidecarReturned
                 /\ Len(examined) = 2
                 /\ ret = NoTriple
    /\ SidecarReturned => Len(examined) \in 1..2

\* the first candidate parsed but held nothing usable; the second was returned
C10_Witness ==
    /\ SidecarReturned
    /\ Len(examined) = 2
    /\ examined[1].kind = "parsed"
    /\ examined[1].held.lat # None
    /\ ret = examined[2].held
    /\ ret.lat # None
    /\ ret.lon # None

\* a JSON value that is missing, null or the empty string
Empty(v) == v = None \/ v = Str("")

\* C14: the datetime returned from a document with a photoTakenTime object is
\* the object's formatted field, else its timestamp field, and never a
\* top-level field, even when the object holds neither; from a document
\* without the object it is creationTime, else creationTimestamp.
C14_SidecarDatetime ==
    (SidecarReturned /\ doc # Unbound) =>
      LET t == doc.photoTakenTime
      IN  IF "formatted" \in DOMAIN t
          THEN /\ ~Empty(t.formatted) => ret.dt = t.formatted
               /\ Empty(t.formatted) => ret.dt = t.timestamp
               /\ (t.formatted = None /\ t.timestamp = None) => ret.dt = None
          ELSE /\ ~Empty(doc.creationTime) => ret.dt = doc.creationTime
               /\ Empty(doc.creationTime) => ret.dt = doc.creationTimestamp

\* a returned document whose time object holds neither field, beside a
\* creationTime: no datetime
C14_Witness ==
    /\ SidecarReturned
    /\ doc # Unbound
    /\ "formatted" \in DOMAIN doc.photoTakenTime
    /\ doc.photoTakenTime.formatted = None
    /\ doc.photoTakenTime.timestamp = None
    /\ doc.creationTime # None
    /\ ret.dt = None
    /\ ret.lat # None

\* a geo object one of whose coordinates float() refuses
Uncoercible(gd) ==
    /\ "latitude" \in DOMAIN gd
    /\ gd.latitude = BadNum \/ gd.longitude = BadNum

\* C15: when the key loop reaches a geoData object with a coordinate that
\* cannot be coerced, nothing is raised and the object contributes neither
\* coordinate, the coercible one included: the loop goes on to location, and
\* the returned pair is location's, or (None, None) without a location
\* object, whatever geoDataExif held before.
C15_CoercionFailure ==
    (/\ SidecarReturned
     /\ doc # Unbound
     /\ ~CompletePair(doc.geoDataExif)
     /\ Uncoercible(doc.geoData)) =>
      /\ DOMAIN ret = {"lat", "lon", "dt"}
      /\ IF "latitude" \in DOMAIN doc.location
         THEN /\ ret.lat = doc.location.latitude
              /\ ret.lon = doc.location.longitude
         ELSE /\ ret.lat = None
              /\ ret.lon = None

\* geoDataExif gave a latitude only, geoData a latitude and an uncoercible
\* longitude, and there is no location: no coordinate is returned
C15_Witness ==
    /\ SidecarReturned
    /\ doc # Unbound
    /\ doc.geoDataExif = [latitude |-> Rat(11, 1), longitude |-> None]
    /\ doc.geoData = [latitude |-> GeoLat, longitude |-> BadNum]
    /\ doc.location = NotDict
    /\ ret.lat = None
    /\ ret.lon = None
    /\ ret.dt # None

(***************************************************************************)
(* Properties of the scan loop (SpecMain).                                 *)
(***************************************************************************)
InSeq(x, seq) == \E i \in 1..Len(seq) : seq[i] = x

\* the loop is between two iterations, or over
BetweenIterations == pc \in {"scan", "thumbs", "reports", "build_map", "done"}

\* C7: a photo is on the skip list exactly when its resolved record has lat
\* or lon None; such a photo has no point and no GeoJSON feature, and is
\* still in the repository and in the CSV rows.  This holds after every
\* iteration of the loop, and for the files written after it.
C7_SkipAccounting ==
    /\ \A i \in 1..Len(items) :
         LET r == items[i]
             unlocated == r.lat = None \/ r.lon = None
         IN  /\ InSeq(r.path, skipped) <=> unlocated
             /\ unlocated =>
                  /\ ~ \E j \in DOMAIN Features(items, EmptyDict) :
                         Features(items, EmptyDict)[j].path = r.path
                  /\ CsvRows(items)[i].path = r.path
                  /\ CsvRows(items)[i].lat = r.lat
                  /\ CsvRows(items)[i].lon = r.lon
             /\ ~unlocated =>
                  \E j \in DOMAIN Features(items, EmptyDict) :
                     /\ Features(items, EmptyDict)[j].path = r.path
                     /\ points(items)[j] = <<r.lat, r.lon>>
    /\ \A j \in DOMAIN points(items) :
         points(items)[j][1] # None /\ points(items)[j][2] # None
    /\ Len(points(items)) + Len(skipped) = Len(items)
    /\ \A i \in 1..Len(skipped) : \E j \in 1..Len(items) : items[j].path = skipped[i]
    /\ pc = "done" =>
         /\ skipped_txt = skipped
         /\ Len(csv) = Len(items)
         /\ Len(geojson) + Len(skipped_txt) = Len(items)
         /\ \A i \in 1..Len(skipped_txt) :
              /\ ~ \E j \in DOMAIN geojson : geojson[j].path = skipped_txt[i]
              /\ \E j \in DOMAIN csv : csv[j].path = skipped_txt[i]
         /\ pts = points(items)

\* a finished run with a record that has a latitude and no longitude on the
\* skip list, beside a located record
C7_Witness ==
    /\ pc = "done"
    /\ \E i \in 1..Len(items) :
         /\ items[i].lat # None
         /\ items[i].lon = None
         /\ InSeq(items[i].path, skipped_txt)
         /\ \E j \in DOMAIN csv : csv[j].path = items[i].path
    /\ Len(geojson) > 0

\* scan_images yields this many paths
Scanned(n, lim) == IF lim = 0 \/ n < lim THEN n ELSE lim

\* C8: between iterations with_gps + without_gps = total = the number of
\* records in the repository, the skip list has without_gps entries, and
\* points and GeoJSON features number with_gps; every scanned photo is
\* counted once.  A directory of one photo with fast-parser GPS, one with
\* only a valid sidecar and one unreadable gives 2 located and 1 skipped.
C8_Counting ==
    /\ BetweenIterations =>
         /\ with_gps + without_gps = total
         /\ total = Len(items)
         /\ total = count
         /\ Len(skipped) = without_gps
         /\ Len(points(items)) = with_gps
         /\ Len(Features(items, EmptyDict)) = with_gps
         /\ \A i \in 1..Len(items) : items[i].path = i
    /\ ~BetweenIterations => total = Len(items) + 1
    /\ pc \in {"thumbs", "reports", "build_map", "done"} =>
         total = Scanned(nfiles, limit)
    /\ pc = "done" =>
         /\ Len(geojson) = with_gps
         /\ Len(pts) = with_gps
         /\ Len(csv) = total
         /\ Len(skipped_txt) = without_gps
    /\ (/\ BetweenIterations
        /\ Len(kinds) = 3
        /\ {kinds[i] : i \in 1..3} = {"fast_gps", "sidecar_only", "unreadable"}) =>
         /\ with_gps = 2
         /\ without_gps = 1
         /\ Len(skipped) = 1
         /\ Len(Features(items, EmptyDict)) = 2

\* the three-photo directory, scanned to the end
C8_Witness ==
    /\ pc = "done"
    /\ total = 3
    /\ kinds = <<"fast_gps", "sidecar_only", "unreadable">>
    /\ Len(geojson) = 2
    /\ skipped_txt = <<3>>

\* C17: no thumbnail is made while the loop runs: make_thumbnails is called
\* once every scanned path is resolved and stored.  The paths handed to it
\* are those of the stored records with both lat and lon set, none of them on
\* the skip list, and every thumbnail made is for one of these paths.
C17_ThumbnailsAfterResolution ==
    /\ pc \in {"scan", "exifread", "sidecar", "fallback", "sentinel", "returned",
               "thumbs"} =>
         gps_paths = Unbound /\ thumb_map = Unbound
    /\ pc \in {"reports", "build_map", "done"} =>
         /\ Len(items) = Scanned(nfiles, limit)
         /\ \A i \in 1..Len(gps_paths) :
              /\ ~InSeq(gps_paths[i], skipped)
              /\ \E j \in 1..Len(items) :
                   /\ items[j].path = gps_paths[i]
                   /\ items[j].lat # None
                   /\ items[j].lon # None
         /\ \A j \in 1..Len(items) :
              (items[j].lat # None /\ items[j].lon # None) =>
                 InSeq(items[j].path, gps_paths)
         /\ \A q \in DOMAIN thumb_map : InSeq(q, gps_paths)

\* two located photos and a skipped one that has a latitude; one thumbnail
\* could not be made
C17_Witness ==
    /\ pc = "done"
    /\ Len(gps_paths) = 2
    /\ Len(skipped) = 1
    /\ \E j \in 1..Len(items) : items[j].lat # None /\ items[j].lon = None
    /\ Cardinality(DOMAIN thumb_map) = 1

\* seq and then possibly more
Extends(longer, seq) ==
    /\ Len(longer) >= Len(seq)
    /\ \A i \in 1..Len(seq) : longer[i] = seq[i]

\* what a step of the run may do to the store
StoreStep ==
    /\ Extends(items', items)
    /\ Extends(skipped', skipped)
    /\ items' # items =>
         /\ pc = "returned"
         /\ items' = Append(items, result)
         /\ result.path = p
    /\ skipped' # skipped =>
         /\ pc = "returned"
         /\ skipped' = Append(skipped, p)
         /\ items' # items
    /\ (result' # result /\ result' # Unbound) =>
         /\ pc = "sentinel"
         /\ result = Unbound
         /\ result'.path = p

\* C19: the returned record is constructed once per scanned path and stored
\* once: between iterations the store holds one record for each path
\* scanned so far, in scan order.  A step of the run only appends to the
\* store and to the skip list, and only in the loop body; thumbnails,
\* exports and the map leave every stored record and every skip-list entry
\* as it was.
C19_StoredOnce ==
    /\ [](/\ BetweenIterations => Len(items) = count
          /\ ~BetweenIterations => Len(items) = count - 1
          /\ \A i \in 1..Len(items) : items[i].path = i
          /\ \A i \in 1..Len(skipped) :
                /\ skipped[i] \in 1..Len(items)
                /\ \A j \in 1..Len(skipped) : skipped[i] = skipped[j] => i = j)
    /\ [][StoreStep]_vars

\* three files scanned and stored, two of them skipped, and everything after
\* the loop has run
C19_Witness ==
    /\ pc = "done"
    /\ Len(items) = 3
    /\ Len(skipped) = 2
    /\ Len(geojson) = 1
    /\ Len(csv) = 3
    /\ Len(pts) = 1

(***************************************************************************)
(* Properties of the conversions (SpecDms).                                *)
(***************************************************************************)
\* three (num, den) pairs with non-zero denominators
NonZeroTriple(l) ==
    /\ Len(l) = 3
    /\ \A i \in 1..3 : "num" \in DOMAIN l[i] /\ l[i].den # 0

\* deg + min/60 + sec/3600 over the common denominator 3600 * d1 * d2 * d3
ExactDegrees(l) ==
    Rat(l[1].num * 3600 * l[2].den * l[3].den
          + l[2].num * 60 * l[1].den * l[3].den
          + l[3].num * l[1].den * l[2].den,
        3600 * l[1].den * l[2].den * l[3].den)

\* |x - 51.5072| < 0.01
NearLondon(x) == 514972 * x.d < 10000 * x.n /\ 10000 * x.n < 515172 * x.d

\* C12: on three (num, den) pairs with non-zero denominators dms_to_decimal
\* returns deg + min/60 + sec/3600, negated exactly when the reference is S or
\* W (N, E, None and any other reference leave the sign); 51 deg 30' 26" N is
\* within 0.01 of 51.5072.
C12_DmsFormula ==
    (deg # Unbound /\ NonZeroTriple(dms)) =>
      /\ deg = (IF ref = Str("S") \/ ref = Str("W")
                THEN [n |-> -ExactDegrees(dms).n, d |-> ExactDegrees(dms).d]
                ELSE ExactDegrees(dms))
      /\ (dms = LondonDMS /\ ref = Str("N")) => NearLondon(deg)

\* 51 deg 30' 26" W converted
C12_Witness ==
    /\ dms = LondonDMS
    /\ ref = Str("W")
    /\ deg = Rat(-92713, 1800)

\* the largest magnitude of a latitude (N, S) or of a longitude (E, W)
MaxDegrees(r) == IF r = Str("N") \/ r = Str("S") THEN 90 ELSE 180

\* 0 <= c < k for a pair with a positive denominator
InRange(x, k) == "num" \in DOMAIN x /\ x.den > 0 /\ 0 <= x.num /\ x.num < k * x.den

\* degrees at most k, minutes and seconds in [0, 60)
ValidTriple(l, k) ==
    /\ Len(l) = 3
    /\ InRange(l[1], k) \/ (InRange(l[1], k + 1) /\ l[1].num = k * l[1].den)
    /\ InRange(l[2], 60)
    /\ InRange(l[3], 60)

\* degrees at most k - 1, or exactly k with no minutes and no seconds
WithinLimit(l, k) ==
    /\ ValidTriple(l, k)
    /\ \/ l[1].num <= (k - 1) * l[1].den
       \/ l[2].num = 0 /\ l[3].num = 0

\* x is a number with |x| <= k
Bounded(x, k) == "n" \in DOMAIN x /\ Abs(x.n) <= k * x.d

Negated(x) == [n |-> -x.n, d |-> x.d]

\* the value for S is the negation of the value for N, that for W of that for E
SignRule ==
    /\ (deg # Unbound /\ ref = Str("S")) => deg = Negated(dms_to_decimal(dms, Str("N")))
    /\ (deg # Unbound /\ ref = Str("W")) => deg = Negated(dms_to_decimal(dms, Str("E")))
    /\ (val # Unbound /\ ref = Str("S")) => val = Negated(_ratios_to_decimal(dms, Str("N")))
    /\ (val # Unbound /\ ref = Str("W")) => val = Negated(_ratios_to_decimal(dms, Str("E")))

AllPairs(l) == \A i \in 1..Len(l) : "num" \in DOMAIN l[i]

\* some component has a zero denominator
SomeZeroDen(l) == \E i \in 1..Len(l) : l[i].den = 0

BothConverted == deg # Unbound /\ val # Unbound

\* C23 as stated: on every list of rational components, of any length, and
\* every reference the two conversions return the same result.
C23_Original == (BothConverted /\ AllPairs(dms)) => deg = val

\* C23 amended: on a list of at most three rational components the two
\* conversions return the same result: None for fewer than three components
\* or a zero denominator, the same number otherwise.  On a longer list
\* _ratios_to_decimal returns None, while dms_to_decimal converts the first
\* three components unless some denominator of the list is zero.
C23_SameUpToThree ==
    (BothConverted /\ AllPairs(dms)) =>
      /\ Len(dms) <= 3 =>
           /\ deg = val
           /\ deg = None <=> (Len(dms) < 3 \/ SomeZeroDen(dms))
      /\ Len(dms) > 3 =>
           /\ val = None
           /\ deg = None <=> SomeZeroDen(dms)
           /\ deg # None =>
                deg = (IF ref = Str("S") \/ ref = Str("W")
                       THEN Negated(ExactDegrees(SubSeq(dms, 1, 3)))
                       ELSE ExactDegrees(SubSeq(dms, 1, 3)))

\* four components: the decoder's conversion gives 51 deg 30' 26" S, the
\* fast parser's gives None
C23_Witness ==
    /\ dms = FourDMS
    /\ ref = Str("S")
    /\ val = None
    /\ deg = Rat(-92713, 1800)

(***************************************************************************)
(* Properties of calls in flight at once (SpecCalls).                      *)
(***************************************************************************)
\* C18: the calls share no state: whatever the other calls have done or
\* are doing, in whatever order their steps fall, the record a call returns
\* for its path is the record read_photo_meta gives for that path's own
\* file, sidecar candidates and image when it is resolved alone; no call
\* raises, and no call's accumulators hold a value before its own first
\* statement has run.
C18_Independent ==
    \A k \in DOMAIN calls :
        /\ calls[k].pc # "raised"
        /\ calls[k].pc = "exifread" => calls[k] = NewFrame(k)
        /\ calls[k].pc = "returned" =>
             calls[k].result =
                read_photo_meta(k, disk[k].file, disk[k].files, disk[k].img)

\* call 1 has merged the decoder's altitude and has not returned; call 2,
\* started after it, has returned the fast parser's record with an empty extra
C18_Witness ==
    /\ pc = "calls"
    /\ calls[1].pc = "sentinel"
    /\ calls[1].pm # Unbound
    /\ calls[1].pm # None
    /\ DOMAIN calls[1].extra = {"altitude_m"}
    /\ calls[2].pc = "returned"
    /\ calls[2].m # None
    /\ calls[2].result.lat # None
    /\ calls[2].result.extra = EmptyDict

(***************************************************************************)
(* Properties of the two extracting strategies (SpecExtract).              *)
(***************************************************************************)
\* a component that cannot be divided: no pair of numbers, or a zero
\* denominator
BadComponent(x) == "num" \notin DOMAIN x \/ x.den = 0

\* the list does not unpack into three components that can be divided
FailsRatios(l) == Len(l) # 3 \/ \E i \in 1..Len(l) : BadComponent(l[i])

\* the list has no d[0], d[1], d[2], or a component that cannot be divided
FailsDms(l) == Len(l) < 3 \/ \E i \in 1..Len(l) : BadComponent(l[i])

\* deg + min/60 + sec/3600 of the first three components, negated for S and W
Expected(l, r) ==
    IF r = Str("S") \/ r = Str("W") THEN Negated(ExactDegrees(SubSeq(l, 1, 3)))
    ELSE ExactDegrees(SubSeq(l, 1, 3))

\* the fast parser read a tag table with both GPS value tags
FastBoth ==
    /\ m # Unbound
    /\ disk[p].file # Unreadable
    /\ disk[p].file.lat_vals # None
    /\ disk[p].file.lon_vals # None

\* the decoder read a table with a GPS sub-dictionary
DecodedGps ==
    /\ pm # Unbound
    /\ disk[p].img # Unidentified
    /\ disk[p].img.gps # None

\* C21: a coordinate whose list of components cannot be converted (a zero
\* denominator, a component that is no number, a list that does not give
\* three values) comes out as None and nothing is raised: the strategy
\* returns a record, in which the other coordinate is None or its converted
\* value according to its own list alone, and datetime, make and model are
\* the values read from the tags.  This holds of the fast parser and of the
\* decoder.
C21_FieldLocalFailure ==
    /\ FastBoth =>
         LET t == disk[p].file
         IN  /\ m # None
             /\ m.lat = (IF FailsRatios(t.lat_vals.some) THEN None
                         ELSE Expected(t.lat_vals.some, t.lat_ref))
             /\ m.lon = (IF FailsRatios(t.lon_vals.some) THEN None
                         ELSE Expected(t.lon_vals.some, t.lon_ref))
             /\ m.datetime = (IF t.dto # None THEN t.dto ELSE t.idt)
             /\ m.make = (IF t.make = Str("") THEN None ELSE t.make)
             /\ m.model = t.model
    /\ DecodedGps =>
         LET g == disk[p].img.gps
             t == disk[p].img
         IN  /\ pm # None
             /\ pm.lat = (IF FailsDms(g.lat) THEN None
                          ELSE Expected(g.lat, g.lat_ref))
             /\ pm.lon = (IF FailsDms(g.lon) THEN None
                          ELSE Expected(g.lon, g.lon_ref))
             /\ pm.datetime = (IF t.dto # None THEN t.dto ELSE t.dt)
             /\ pm.make = t.make
             /\ pm.model = t.model

\* the file's longitude has a component that is no number and its latitude
\* is converted; the image's latitude has a zero denominator and its
\* longitude is converted
C21_Witness ==
    /\ FastBoth
    /\ DecodedGps
    /\ disk[p].file.lon_vals = Some(BadDMS)
    /\ m.lon = None
    /\ m.lat = Rat(-92713, 1800)
    /\ m.make = Str("Canon")
    /\ disk[p].img.gps.lat = ZeroDenDMS
    /\ pm.lat = None
    /\ pm.lon # None
    /\ pm.model = Str("iPhone")

\* the image's table with the altitude taken out of its GPS sub-dictionary
WithoutAltitude(t) == [t EXCEPT !.gps = [t.gps EXCEPT !.alt = None]]

\* the fields of a record other than extra
OtherFields(r) ==
    <<r.path, r.lat, r.lon, r.datetime, r.make, r.model>>

\* C22: when the GPS sub-dictionary holds an altitude, the decoder returns a
\* record.  For a pair (num, den) with den # 0 its extra is exactly
\* altitude_m, the string of num/den; for a zero denominator or a value that
\* is no pair extra is empty.  In both cases every other field is what the
\* decoder returns for the same image without the altitude.
C22_Altitude ==
    (DecodedGps /\ disk[p].img.gps.alt # None) =>
      LET a == disk[p].img.gps.alt.some
      IN  /\ pm # None
          /\ IF BadComponent(a)
             THEN pm.extra = EmptyDict
             ELSE /\ DOMAIN pm.extra = {"altitude_m"}
                  /\ pm.extra["altitude_m"] = Str(Rat(a.num, a.den))
          /\ OtherFields(pm) =
               OtherFields(_pillow_extract(p, WithoutAltitude(disk[p].img)))

\* an altitude of 71/2 stored as the string of 35.5 next to a failed
\* latitude
C22_Witness ==
    /\ DecodedGps
    /\ disk[p].img.gps.alt = Some(R(71, 2))
    /\ pm.extra = [k \in {"altitude_m"} |-> Str(Rat(71, 2))]
    /\ pm.lat = None
    /\ pm.lon # None

=============================================================================
